---- MODULE Spec2Model ----
(***************************************************************************)
(* The incremental SSE consumer of the four demo pages (crisis-detector,   *)
(* launch-detector, market-trends, visual-pricing) as a state machine.     *)
(*                                                                         *)
(* Text is a sequence of tokens.  "\n" is the newline character, "data:"   *)
(* and " " make up the prefix "data: ", and a JSON payload is "{", a list   *)
(* of members and "}" (or the literal null).  A read chunk is any          *)
(* non-empty run of tokens, so a chunk may end inside the prefix, inside   *)
(* a payload or between the two newlines of a delimiter.                   *)
(*                                                                         *)
(* A step of a run is everything the handler does between two awaits:      *)
(* the continuation of `await fetch`, or of `await reader.read()` with the *)
(* whole for-of loop over the records of that chunk, including catch and   *)
(* finally when something is thrown.                                       *)
(***************************************************************************)
EXTENDS Integers, Sequences, FiniteSets, TLC

VARIABLES
    page,         \* which demo page this is
    stream,       \* the text the server sends for a run of this page
    flush,        \* how the transport cuts the text into read chunks
    clicks,       \* how many more times the user will click Run / Analyze
    filled,       \* visual-pricing: screenshot, productName and productPrice
                  \* are all set
    runs,         \* the invocations of runAnalysis / handleAnalyze so far
    outputs,      \* outputs (messages in visual-pricing)
    activeAgent,  \* activeAgent, "" for null
    slot,         \* threatLevel / forecast / recommendation, "" for null
    marketData,   \* marketData (market-trends), "" for null
    isRunning,    \* isRunning (pages with a Run/Stop button)
    status,       \* status (visual-pricing)
    error,        \* error (visual-pricing), "" for null
    abortRef      \* abortRef.current: index into runs, 0 for null

vars == <<page, stream, flush, clicks, filled, runs, outputs, activeAgent, slot, marketData,
          isRunning, status, error, abortRef>>

(* ------------------------------ bounds --------------------------------- *)

MaxSegs == 2
MaxRuns == 3

(* ------------------------------- pages --------------------------------- *)

Pages == {"crisis", "launch", "market", "visual"}
RunStopPages == {"crisis", "launch", "market"}

(* ------------------------------- text ---------------------------------- *)

NL == "\n"
Delim == <<NL, NL>>
DataPrefix == <<"data:", " ">>

StartsWith(s, p) ==
    /\ Len(s) >= Len(p)
    /\ SubSeq(s, 1, Len(p)) = p

\* s.slice(n)
Slice(s, n) == SubSeq(s, n + 1, Len(s))

\* Position of the first "\n\n" in s at or after i, 0 when there is none.
RECURSIVE FindDelim(_, _)
FindDelim(s, i) ==
    IF i + 1 > Len(s) THEN 0
    ELSE IF s[i] = NL /\ s[i + 1] = NL THEN i
    ELSE FindDelim(s, i + 1)

\* buffer.split("\n"): the pieces between successive newlines.
RECURSIVE Split_newline(_)
Split_newline(s) ==
    IF \A i \in 1..Len(s) : s[i] # NL THEN <<s>>
    ELSE LET d == CHOOSE i \in 1..Len(s) :
                    s[i] = NL /\ \A j \in 1..(i - 1) : s[j] # NL
         IN  <<SubSeq(s, 1, d - 1)>> \o Split_newline(SubSeq(s, d + 1, Len(s)))

\* buffer.split("\n\n"): the pieces between successive delimiters, found
\* left to right; the last piece is what follows the last delimiter.
RECURSIVE Split(_)
Split(s) ==
    LET d == FindDelim(s, 1)
    IN  IF d = 0 THEN <<s>>
        ELSE <<SubSeq(s, 1, d - 1)>> \o Split(SubSeq(s, d + 2, Len(s)))

\* lines after lines.pop()
Front(q) == SubSeq(q, 1, Len(q) - 1)
\* The last piece is thrown away instead of kept.
Last_drop(q) == <<>>

\* lines.pop() || ""
Last(q) == q[Len(q)]

(* ------------------------------- JSON ---------------------------------- *)

Members == {"done", "err", "err0", "ag1", "ag2", "con", "tt", "fin",
            "res", "res2", "res0", "mkt"}

EmptyEvent ==
    [done |-> FALSE, error |-> "", agent |-> "", content |-> "",
     thought_type |-> "", is_final |-> FALSE, result |-> "", market |-> ""]

\* One member of a JSON object, as the property it sets.  result stands for
\* metadata.recommendation / metadata.assessment / metadata.forecast; the
\* value "nolevel" is a result object without a threat_level field.
SetMember(ev, m) ==
    CASE m = "done" -> [ev EXCEPT !.done = TRUE]
      [] m = "err"  -> [ev EXCEPT !.error = "boom"]
      [] m = "err0" -> [ev EXCEPT !.error = ""]
      [] m = "ag1"  -> [ev EXCEPT !.agent = "scout"]
      [] m = "ag2"  -> [ev EXCEPT !.agent = "strategist"]
      [] m = "con"  -> [ev EXCEPT !.content = "text"]
      [] m = "tt"   -> [ev EXCEPT !.thought_type = "observation"]
      [] m = "fin"  -> [ev EXCEPT !.is_final = TRUE]
      [] m = "res"  -> [ev EXCEPT !.result = "high"]
      [] m = "res2" -> [ev EXCEPT !.result = "low"]
      [] m = "res0" -> [ev EXCEPT !.result = "nolevel"]
      [] m = "mkt"  -> [ev EXCEPT !.market = "md"]
      [] OTHER      -> ev

RECURSIVE ObjectOf(_, _)
ObjectOf(ms, ev) ==
    IF ms = <<>> THEN ev
    ELSE ObjectOf(Tail(ms), SetMember(ev, Head(ms)))

\* JSON.parse: an object, the value null, a number (every property of which
\* is undefined), or a SyntaxError.
JSONParse(t) ==
    IF t = <<"null">> THEN [kind |-> "null", ev |-> EmptyEvent]
    ELSE IF t = <<"5">> THEN [kind |-> "number", ev |-> EmptyEvent]
    ELSE IF /\ Len(t) >= 2
            /\ t[1] = "{"
            /\ t[Len(t)] = "}"
            /\ \A i \in 2..(Len(t) - 1) : t[i] \in Members
         THEN [kind |-> "object",
               ev |-> ObjectOf(SubSeq(t, 2, Len(t) - 1), EmptyEvent)]
         ELSE [kind |-> "SyntaxError", ev |-> EmptyEvent]

(* --------------------- the body of the for-of loop --------------------- *)

NoThrow == [name |-> "", message |-> ""]

\* What one iteration of the for-of loop did with record number rec of the
\* stream (kept per run, for the properties only).
Step(rec, kind, appended, slotted) ==
    [rec |-> rec, kind |-> kind, appended |-> appended, slotted |-> slotted]

\* { agent, content, thoughtType: event.thought_type || undefined }
Entry(ev) ==
    [agent |-> ev.agent, content |-> ev.content, thoughtType |-> ev.thought_type]

\* The result is taken only from the records that are appended.
DispatchRunStop_gated(pg, st, ev, rec) ==
    IF ev.done
    THEN [st EXCEPT
            !.marketData = IF pg = "market" /\ ev.market # ""
                           THEN ev.market ELSE @,
            !.brk = TRUE,
            !.hist = Append(@, Step(rec, "done", FALSE, FALSE))]
    ELSE IF ev.error # ""
    THEN [st EXCEPT
            !.thrown = [name |-> "Error", message |-> ev.error],
            !.hist = Append(@, Step(rec, "error", FALSE, FALSE))]
    ELSE LET app == ev.agent # "" /\ ev.content # ""
             slt == /\ app
                    /\ \/ pg = "launch" /\ ev.result \notin {"", "nolevel"}
                       \/ pg = "market" /\ ev.result # ""
         IN  [st EXCEPT
                !.activeAgent = IF app THEN ev.agent ELSE @,
                !.outputs = IF app THEN Append(@, Entry(ev)) ELSE @,
                !.slot = IF slt THEN ev.result ELSE @,
                !.hist = Append(@, Step(rec, "event", app, slt))]

\* crisis-detector, launch-detector, market-trends: the statements of the
\* try block after JSON.parse returned the object ev.
DispatchRunStop(pg, st, ev, rec) ==
    IF ev.done
    THEN [st EXCEPT
            !.marketData = IF pg = "market" /\ ev.market # ""
                           THEN ev.market ELSE @,
            !.brk = TRUE,
            !.hist = Append(@, Step(rec, "done", FALSE, FALSE))]
    ELSE IF ev.error # ""
    THEN [st EXCEPT
            !.thrown = [name |-> "Error", message |-> ev.error],
            !.hist = Append(@, Step(rec, "error", FALSE, FALSE))]
    ELSE LET app == ev.agent # "" /\ ev.content # ""
             slt == \/ pg = "launch" /\ ev.result \notin {"", "nolevel"}
                    \/ pg = "market" /\ ev.result # ""
         IN  [st EXCEPT
                !.activeAgent = IF app THEN ev.agent ELSE @,
                !.outputs = IF app THEN Append(@, Entry(ev)) ELSE @,
                !.slot = IF slt THEN ev.result ELSE @,
                !.hist = Append(@, Step(rec, "event", app, slt))]

\* visual-pricing: the statements of the try block after JSON.parse.
DispatchVisual(st, ev, rec) ==
    IF ev.done
    THEN [st EXCEPT
            !.status = "complete",
            !.activeAgent = "",
            !.hist = Append(@, Step(rec, "done", FALSE, FALSE))]
    ELSE IF ev.error # ""
    THEN [st EXCEPT
            !.thrown = [name |-> "Error", message |-> ev.error],
            !.hist = Append(@, Step(rec, "error", FALSE, FALSE))]
    ELSE LET app == ev.agent # ""
             slt == /\ app
                    /\ ev.agent = "strategist"
                    /\ ev.is_final
                    /\ ev.result # ""
         IN  [st EXCEPT
                !.activeAgent = IF app THEN ev.agent ELSE @,
                !.outputs = IF app THEN Append(@, Entry(ev)) ELSE @,
                !.slot = IF slt THEN ev.result ELSE @,
                !.hist = Append(@, Step(rec, "event", app, slt))]

\* line.startsWith("data:"): the space is not checked.
HasDataPrefix_colon(line) == StartsWith(line, <<"data:">>)

\* line.startsWith("data: ")
HasDataPrefix(line) == StartsWith(line, DataPrefix)

\* The inner catch rethrows the SyntaxError as well.
CatchParse_rethrow(st, rec) ==
    [st EXCEPT !.thrown = [name |-> "SyntaxError", message |-> "Unexpected token"],
               !.hist = Append(@, Step(rec, "syntax", FALSE, FALSE))]

\* The inner catch with e instanceof SyntaxError: console.error, and the
\* loop goes on with the next record.
CatchParse(st, rec) ==
    [st EXCEPT !.hist = Append(@, Step(rec, "syntax", FALSE, FALSE))]

\* One iteration of `for (const line of lines)`.
HandleLine(pg, st, line, rec) ==
    IF ~HasDataPrefix(line)
    THEN [st EXCEPT !.hist = Append(@, Step(rec, "noprefix", FALSE, FALSE))]
    ELSE LET p == JSONParse(Slice(line, Len(DataPrefix)))
         IN  CASE p.kind = "SyntaxError" -> CatchParse(st, rec)
               [] p.kind = "null" ->
                    \* reading .done of null throws a TypeError, rethrown
                    [st EXCEPT
                       !.thrown = [name |-> "TypeError", message |-> "null"],
                       !.hist = Append(@, Step(rec, "typeerror", FALSE, FALSE))]
               [] OTHER ->
                    IF pg = "visual"
                    THEN DispatchVisual(st, p.ev, rec)
                    ELSE DispatchRunStop(pg, st, p.ev, rec)

\* The for-of loop from record i on: it ends at the end of lines, at a
\* break, or when an iteration throws.
RECURSIVE ForLines(_, _, _, _, _)
ForLines(pg, st, lines, i, base) ==
    IF i > Len(lines) \/ st.brk \/ st.thrown # NoThrow
    THEN st
    ELSE ForLines(pg, HandleLine(pg, st, lines[i], base + i), lines, i + 1, base)

(* ------------------------------ streams -------------------------------- *)

Rec(payload) == DataPrefix \o payload \o Delim

SegEvent     == Rec(<<"{", "ag1", "con", "}">>)
SegDone      == Rec(<<"{", "done", "}">>)
SegError     == Rec(<<"{", "err", "}">>)
SegTruncated == Rec(<<"{", "ag1">>)
SegNull      == Rec(<<"null">>)
SegNumber    == Rec(<<"5">>)
SegAgentOnly == Rec(<<"{", "ag1", "}">>)
SegTextOnly  == Rec(<<"{", "con", "}">>)
SegResult    == Rec(<<"{", "res", "}">>)
SegNoSpace   == <<"data:", "{", "ag1", "con", "}">> \o Delim
SegComment   == <<":">> \o Delim
SegNewline   == <<NL>> \o SegEvent
SegField     == <<"event:", NL>> \o SegEvent

\* Text that is not followed by a delimiter: the end of a stream that was
\* cut off, or a server that does not write the last blank line.
SegTail      == DataPrefix \o <<"{", "ag1", "con", "}">>
SegTailLine  == DataPrefix \o <<"{", "ag1", "con", "}", NL>>
SegTailDone  == DataPrefix \o <<"{", "done", "}">>
SegTailError == DataPrefix \o <<"{", "err", "}">>
SegTailNull  == DataPrefix \o <<"null">>

\* Records that carry a result object in their metadata.
SegFinal       == Rec(<<"{", "ag2", "con", "fin", "res", "}">>)
SegDraft       == Rec(<<"{", "ag2", "con", "res2", "}">>)
SegScoutResult == Rec(<<"{", "ag1", "fin", "res2", "}">>)
SegNoLevel     == Rec(<<"{", "ag1", "con", "res0", "}">>)

\* Records with agent and content, as in the example of the specification.
SegThought     == Rec(<<"{", "ag2", "con", "tt", "}">>)
SegLastOfAgent == Rec(<<"{", "ag1", "con", "fin", "}">>)

\* Records that differ in their payload.
Segments ==
    {SegEvent, SegDone, SegError, SegTruncated, SegNull, SegAgentOnly,
     SegTextOnly, SegResult}

\* Records that differ in how they are framed.
FramingSegments ==
    {SegEvent, SegDone, SegNoSpace, SegComment, SegNewline, SegField}

\* Records, and text without its delimiter.
TailSegments ==
    {SegEvent, SegDone, SegTail, SegTailLine, SegTailDone, SegTailError,
     SegTailNull}

\* Records with and without a result object.
ResultSegments ==
    {SegEvent, SegDone, SegResult, SegFinal, SegDraft, SegScoutResult,
     SegNoLevel}

\* Well-formed records that carry agent and content.
ScenarioSegments == {SegEvent, SegThought, SegLastOfAgent}

\* Records whose payload is valid JSON and not an object, among others.
ValueSegments ==
    {SegEvent, SegDone, SegError, SegTruncated, SegNull, SegNumber}

\* Records that end a run in different ways, and one that does not.
ExitSegments == {SegEvent, SegDone, SegError, SegNull}

RECURSIVE StreamsOf(_, _)
StreamsOf(segs, n) ==
    IF n = 0 THEN {<<>>}
    ELSE LET shorter == StreamsOf(segs, n - 1)
         IN  shorter \cup {s \o g : s \in shorter, g \in segs}

Streams == StreamsOf(Segments, MaxSegs)
FramingStreams == StreamsOf(FramingSegments, MaxSegs)
TailStreams == StreamsOf(TailSegments, MaxSegs)
ResultStreams == StreamsOf(ResultSegments, MaxSegs)
ValueStreams == StreamsOf(ValueSegments, MaxSegs)
ExitStreams == StreamsOf(ExitSegments, MaxSegs)
ScenarioStreams == {s \o SegDone : s \in StreamsOf(ScenarioSegments, MaxSegs)}

(* -------------------------------- runs --------------------------------- *)

\* One invocation of runAnalysis / handleAnalyze.
\*   pc      "fetch": suspended in `await fetch`, "read": suspended in
\*           `await reader.read()`, "end": returned
\*   aborted the signal of the run's AbortController
\*   pos     how much of the stream the reader has delivered
\*   buffer  the local variable buffer
\*   recs    how many records have been taken off the buffer
\*   reader  "none", "held" (locked on an open body), "closed" (the body
\*           reached EOF or was errored)
\*   exit    "none", "normal" (the try block ran to its end), "caught" (the
\*           catch block reported the exception), "aborted" (the catch block
\*           saw an AbortError and stayed silent)
\*   message the message of the reported exception
\*   hist    what the for-of loop did, record by record
NewRun ==
    [pc |-> "fetch", aborted |-> FALSE, pos |-> 0, buffer |-> <<>>,
     recs |-> 0, reader |-> "none", exit |-> "none", message |-> "",
     hist |-> <<>>]

Live(r) == runs[r].pc # "end"

\* The catch block without the test of e.name.
CaughtExit_always(e) == "caught"

\* catch (e) of the Run/Stop pages: AbortError is silent, anything else is
\* written to the console.
CaughtExit(e) == IF e.name # "AbortError" THEN "caught" ELSE "aborted"

\* The same without the finally block.
ThrowRunStop_noFinally(r, run, e) ==
    /\ runs' = [runs EXCEPT ![r] =
                  [run EXCEPT !.pc = "end",
                              !.exit = CaughtExit(e),
                              !.message = IF e.name # "AbortError"
                                          THEN e.message ELSE ""]]
    /\ UNCHANGED <<isRunning, activeAgent, status, error>>

\* A run of a Run/Stop page leaves through catch and finally with e thrown.
ThrowRunStop(r, run, e) ==
    /\ runs' = [runs EXCEPT ![r] =
                  [run EXCEPT !.pc = "end",
                              !.exit = CaughtExit(e),
                              !.message = IF e.name # "AbortError"
                                          THEN e.message ELSE ""]]
    /\ isRunning' = FALSE
    /\ activeAgent' = ""
    /\ UNCHANGED <<status, error>>

\* handleAnalyze leaves through its catch with e thrown.
ThrowVisual(r, run, e) ==
    /\ runs' = [runs EXCEPT ![r] =
                  [run EXCEPT !.pc = "end",
                              !.exit = "caught",
                              !.message = e.message]]
    /\ error' = e.message
    /\ status' = "error"
    /\ activeAgent' = ""
    /\ UNCHANGED isRunning

Throw(r, run, e) ==
    IF page = "visual" THEN ThrowVisual(r, run, e) ELSE ThrowRunStop(r, run, e)

\* The try block ran to its end and nothing is reset.
Return_noFinally(r, run) ==
    /\ runs' = [runs EXCEPT ![r] = [run EXCEPT !.pc = "end", !.exit = "normal"]]
    /\ UNCHANGED <<activeAgent, isRunning, status, error>>

\* The try block ran to its end: finally (Run/Stop pages), or the two
\* statements after the while loop (visual-pricing).
Return(r, run) ==
    /\ runs' = [runs EXCEPT ![r] = [run EXCEPT !.pc = "end", !.exit = "normal"]]
    /\ activeAgent' = ""
    /\ IF page = "visual"
       THEN status' = "complete" /\ UNCHANGED isRunning
       ELSE isRunning' = FALSE /\ UNCHANGED status
    /\ UNCHANGED error

(* ------------------------------ actions -------------------------------- *)

\* Click on "Run Analysis": runAnalysis up to `await fetch`.
RunAnalysis ==
    /\ page \in RunStopPages
    /\ ~isRunning
    /\ clicks > 0
    /\ clicks' = clicks - 1
    /\ isRunning' = TRUE
    /\ outputs' = <<>>
    /\ slot' = IF page \in {"launch", "market"} THEN "" ELSE slot
    /\ marketData' = IF page = "market" THEN "" ELSE marketData
    /\ runs' = Append(runs, NewRun)
    /\ abortRef' = Len(runs) + 1
    /\ UNCHANGED <<page, stream, flush, filled, activeAgent, status, error>>

\* The user sets the last of the required fields of the form, or empties one.
SetField ==
    /\ page = "visual"
    /\ ~filled
    /\ filled' = TRUE
    /\ UNCHANGED <<page, stream, flush, clicks, runs, outputs, activeAgent, slot,
                   marketData, isRunning, status, error, abortRef>>

ClearField ==
    /\ page = "visual"
    /\ filled
    /\ filled' = FALSE
    /\ UNCHANGED <<page, stream, flush, clicks, runs, outputs, activeAgent, slot,
                   marketData, isRunning, status, error, abortRef>>

\* canAnalyze: what enables the button "Analyze & Get Pricing".
CanAnalyze == filled /\ status # "analyzing"

\* handleAnalyze without its first three lines.
HandleAnalyze_noGuard ==
    /\ page = "visual"
    /\ CanAnalyze \/ ~filled
    /\ clicks > 0
    /\ clicks' = clicks - 1
    /\ status' = "analyzing"
    /\ outputs' = <<>>
    /\ activeAgent' = ""
    /\ slot' = ""
    /\ error' = ""
    /\ runs' = Append(runs, NewRun)
    /\ UNCHANGED <<page, stream, flush, filled, marketData, isRunning, abortRef>>

\* handleAnalyze up to `await fetch`.  The button invokes it when canAnalyze
\* holds; the handler checks the required fields itself, for an invocation
\* that reaches it while one of them is missing.
HandleAnalyze ==
    /\ page = "visual"
    /\ CanAnalyze \/ ~filled
    /\ clicks > 0
    /\ clicks' = clicks - 1
    /\ IF ~filled
       THEN /\ error' = "Please fill in all required fields"
            /\ UNCHANGED <<status, outputs, activeAgent, slot, runs>>
       ELSE /\ status' = "analyzing"
            /\ outputs' = <<>>
            /\ activeAgent' = ""
            /\ slot' = ""
            /\ error' = ""
            /\ runs' = Append(runs, NewRun)
    /\ UNCHANGED <<page, stream, flush, filled, marketData, isRunning, abortRef>>

\* Click on "Stop".
StopAnalysis ==
    /\ page \in RunStopPages
    /\ isRunning
    /\ runs' = IF abortRef = 0 THEN runs
               ELSE [runs EXCEPT ![abortRef].aborted = TRUE]
    /\ isRunning' = FALSE
    /\ UNCHANGED <<page, stream, flush, filled, clicks, outputs, activeAgent, slot,
                   marketData, status, error, abortRef>>

\* fetch resolves and response.ok is not looked at.
FetchResolve_noOkCheck(r, ok, body) ==
    LET run == runs[r]
    IN  /\ run.pc = "fetch"
        /\ ~run.aborted
        /\ IF ~body
           THEN Throw(r, run, [name |-> "Error",
                               message |-> IF page = "visual"
                                           THEN "No response body"
                                           ELSE "No reader"])
           ELSE /\ runs' = [runs EXCEPT ![r] =
                              [run EXCEPT !.pc = "read", !.reader = "held"]]
                /\ UNCHANGED <<activeAgent, isRunning, status, error>>
        /\ UNCHANGED <<page, stream, flush, filled, clicks, outputs, slot, marketData, abortRef>>

\* fetch resolves with a response; ok is response.ok, body is whether
\* response.body is there.
FetchResolve(r, ok, body) ==
    LET run == runs[r]
    IN  /\ run.pc = "fetch"
        /\ ~run.aborted
        /\ IF page = "visual" /\ ~ok
           THEN Throw(r, run, [name |-> "Error", message |-> "Analysis failed: status"])
           ELSE IF ~body
           THEN Throw(r, run, [name |-> "Error",
                               message |-> IF page = "visual"
                                           THEN "No response body"
                                           ELSE "No reader"])
           ELSE /\ runs' = [runs EXCEPT ![r] =
                              [run EXCEPT !.pc = "read", !.reader = "held"]]
                /\ UNCHANGED <<activeAgent, isRunning, status, error>>
        /\ UNCHANGED <<page, stream, flush, filled, clicks, outputs, slot, marketData, abortRef>>

\* fetch rejects: the network failed.
FetchReject(r) ==
    LET run == runs[r]
    IN  /\ run.pc = "fetch"
        /\ ~run.aborted
        /\ Throw(r, run, [name |-> "TypeError", message |-> "Failed to fetch"])
        /\ UNCHANGED <<page, stream, flush, filled, clicks, outputs, slot, marketData, abortRef>>

\* A chunk that ends at position k of the stream ends with a delimiter or
\* with the stream.
EndsRecord(k) ==
    \/ k = Len(stream)
    \/ k >= 2 /\ stream[k - 1] = NL /\ stream[k] = NL

\* A read of an aborted run still delivers the next chunk.
ReadChunk_ignoresAbort(r, n) ==
    /\ runs[r].pc = "read"
    /\ runs[r].pos + n <= Len(stream)
    /\ flush = "record" => EndsRecord(runs[r].pos + n)
    /\ \E parts \in {Split(runs[r].buffer \o
                            SubSeq(stream, runs[r].pos + 1, runs[r].pos + n))} :
       \E st \in {ForLines(page,
                           [outputs |-> outputs, activeAgent |-> activeAgent,
                            slot |-> slot, marketData |-> marketData,
                            status |-> status, thrown |-> NoThrow,
                            brk |-> FALSE, hist |-> runs[r].hist],
                           Front(parts), 1, runs[r].recs)} :
          LET run1 == [runs[r] EXCEPT !.pos = @ + n,
                                      !.buffer = Last(parts),
                                      !.recs = @ + Len(parts) - 1,
                                      !.hist = st.hist]
          IN  /\ outputs' = st.outputs
              /\ slot' = st.slot
              /\ marketData' = st.marketData
              /\ IF st.thrown # NoThrow
                 THEN Throw(r, run1, st.thrown)
                 ELSE /\ runs' = [runs EXCEPT ![r] = run1]
                      /\ activeAgent' = st.activeAgent
                      /\ status' = st.status
                      /\ UNCHANGED <<isRunning, error>>
    /\ UNCHANGED <<page, stream, flush, filled, clicks, abortRef>>

\* reader.read() resolves with the next n tokens of the stream: one turn of
\* the while loop.
ReadChunk(r, n) ==
    /\ runs[r].pc = "read"
    /\ ~runs[r].aborted
    /\ runs[r].pos + n <= Len(stream)
    /\ flush = "record" => EndsRecord(runs[r].pos + n)
    /\ \E parts \in {Split(runs[r].buffer \o
                            SubSeq(stream, runs[r].pos + 1, runs[r].pos + n))} :
       \E st \in {ForLines(page,
                           [outputs |-> outputs, activeAgent |-> activeAgent,
                            slot |-> slot, marketData |-> marketData,
                            status |-> status, thrown |-> NoThrow,
                            brk |-> FALSE, hist |-> runs[r].hist],
                           Front(parts), 1, runs[r].recs)} :
          LET run1 == [runs[r] EXCEPT !.pos = @ + n,
                                      !.buffer = Last(parts),
                                      !.recs = @ + Len(parts) - 1,
                                      !.hist = st.hist]
          IN  /\ outputs' = st.outputs
              /\ slot' = st.slot
              /\ marketData' = st.marketData
              /\ IF st.thrown # NoThrow
                 THEN Throw(r, run1, st.thrown)
                 ELSE /\ runs' = [runs EXCEPT ![r] = run1]
                      /\ activeAgent' = st.activeAgent
                      /\ status' = st.status
                      /\ UNCHANGED <<isRunning, error>>
    /\ UNCHANGED <<page, stream, flush, filled, clicks, abortRef>>

\* At EOF what is left in the buffer is handled as one more record.
ReadEOF_flush(r) ==
    LET run == runs[r]
        st == HandleLine(page,
                         [outputs |-> outputs, activeAgent |-> activeAgent,
                          slot |-> slot, marketData |-> marketData,
                          status |-> status, thrown |-> NoThrow,
                          brk |-> FALSE, hist |-> run.hist],
                         run.buffer, run.recs + 1)
    IN  /\ run.pc = "read"
        /\ ~run.aborted
        /\ run.pos = Len(stream)
        /\ outputs' = st.outputs
        /\ slot' = st.slot
        /\ marketData' = st.marketData
        /\ Return(r, [run EXCEPT !.reader = "closed", !.hist = st.hist])
        /\ UNCHANGED <<page, stream, flush, filled, clicks, abortRef>>

\* reader.read() resolves with done: the body has ended.
ReadEOF(r) ==
    LET run == runs[r]
    IN  /\ run.pc = "read"
        /\ ~run.aborted
        /\ run.pos = Len(stream)
        /\ Return(r, [run EXCEPT !.reader = "closed"])
        /\ UNCHANGED <<page, stream, flush, filled, clicks, outputs, slot, marketData, abortRef>>

\* reader.read() rejects: the connection broke.
ReadReject(r) ==
    LET run == runs[r]
    IN  /\ run.pc = "read"
        /\ ~run.aborted
        /\ Throw(r, [run EXCEPT !.reader = "closed"],
                 [name |-> "TypeError", message |-> "network error"])
        /\ UNCHANGED <<page, stream, flush, filled, clicks, outputs, slot, marketData, abortRef>>

\* The pending fetch or read of an aborted run rejects with an AbortError.
AbortReject(r) ==
    LET run == runs[r]
    IN  /\ run.pc \in {"fetch", "read"}
        /\ run.aborted
        /\ Throw(r, [run EXCEPT !.reader = IF @ = "held" THEN "closed" ELSE @],
                 [name |-> "AbortError", message |-> "aborted"])
        /\ UNCHANGED <<page, stream, flush, filled, clicks, outputs, slot, marketData, abortRef>>

\* The pending fetch or read rejects with an AbortError that stopAnalysis
\* did not cause (the browser or a service worker aborted the request).
ForeignAbort(r) ==
    LET run == runs[r]
    IN  /\ run.pc \in {"fetch", "read"}
        /\ ~run.aborted
        /\ Throw(r, [run EXCEPT !.reader = IF @ = "held" THEN "closed" ELSE @],
                 [name |-> "AbortError", message |-> "The operation was aborted"])
        /\ UNCHANGED <<page, stream, flush, filled, clicks, outputs, slot, marketData, abortRef>>

Next ==
    \/ RunAnalysis
    \/ SetField
    \/ ClearField
    \/ HandleAnalyze
    \/ StopAnalysis
    \/ \E r \in 1..Len(runs), ok \in BOOLEAN, body \in BOOLEAN : FetchResolve(r, ok, body)
    \/ \E r \in 1..Len(runs) : FetchReject(r)
    \/ \E r \in 1..Len(runs), n \in 1..Len(stream) : ReadChunk(r, n)
    \/ \E r \in 1..Len(runs) : ReadEOF(r)
    \/ \E r \in 1..Len(runs) : ReadReject(r)
    \/ \E r \in 1..Len(runs) : AbortReject(r)
    \/ \E r \in 1..Len(runs) : ForeignAbort(r)

InitUI ==
    /\ filled = FALSE
    /\ runs = <<>>
    /\ outputs = <<>>
    /\ activeAgent = ""
    /\ slot = ""
    /\ marketData = ""
    /\ isRunning = FALSE
    /\ status = "idle"
    /\ error = ""
    /\ abortRef = 0

\* One run per page load, any stream of up to MaxSegs segments, cut into
\* chunks at any token.
Init ==
    /\ page \in Pages
    /\ stream \in Streams
    /\ flush = "token"
    /\ clicks = 1
    /\ InitUI

Spec == Init /\ [][Next]_vars

\* As Spec, over the streams whose records differ in their framing.
InitFraming ==
    /\ page \in Pages
    /\ stream \in FramingStreams
    /\ flush = "token"
    /\ clicks = 1
    /\ InitUI

SpecFraming == InitFraming /\ [][Next]_vars

\* As Spec, over the streams that may end without a delimiter.
InitTail ==
    /\ page \in Pages
    /\ stream \in TailStreams
    /\ flush = "token"
    /\ clicks = 1
    /\ InitUI

SpecTail == InitTail /\ [][Next]_vars

\* As Spec, over the streams whose records carry result objects.
InitResult ==
    /\ page \in Pages
    /\ stream \in ResultStreams
    /\ flush = "token"
    /\ clicks = 1
    /\ InitUI

SpecResult == InitResult /\ [][Next]_vars

\* As Spec, over the streams with payloads that are not objects.
InitValues ==
    /\ page \in Pages
    /\ stream \in ValueStreams
    /\ flush = "token"
    /\ clicks = 1
    /\ InitUI

SpecValues == InitValues /\ [][Next]_vars

\* As Spec, over the streams of up to MaxSegs records with agent and content
\* followed by one done record.
InitScenario ==
    /\ page \in Pages
    /\ stream \in ScenarioStreams
    /\ flush = "token"
    /\ clicks = 1
    /\ InitUI

SpecScenario == InitScenario /\ [][Next]_vars

\* The rejection of an aborted fetch or read is delivered to the run.
AbortDelivered ==
    WF_vars(\E r \in 1..MaxRuns : r <= Len(runs) /\ AbortReject(r))

\* Up to MaxRuns runs over a stream of one record that the server leaves
\* open for a while, where the rejection of an aborted fetch or read is
\* delivered.
InitStop ==
    /\ page \in Pages
    /\ stream = SegEvent
    /\ flush = "record"
    /\ clicks = MaxRuns
    /\ InitUI

SpecStop == InitStop /\ [][Next]_vars /\ AbortDelivered

\* The fetch settles and every read settles: the stream ends or fails.
StreamSettles ==
    WF_vars(\E r \in 1..MaxRuns :
               /\ r <= Len(runs)
               /\ \/ \E ok \in BOOLEAN, body \in BOOLEAN : FetchResolve(r, ok, body)
                  \/ FetchReject(r)
                  \/ \E n \in 1..Len(stream) : ReadChunk(r, n)
                  \/ ReadEOF(r)
                  \/ ReadReject(r)
                  \/ AbortReject(r)
                  \/ ForeignAbort(r))

\* One run per page load over the streams of ExitSegments, where the stream
\* ends or fails.
InitExit ==
    /\ page \in Pages
    /\ stream \in ExitStreams
    /\ flush = "token"
    /\ clicks = 1
    /\ InitUI

SpecExit == InitExit /\ [][Next]_vars /\ StreamSettles

\* Two clicks on one page load, over a stream that ends with the strategist's
\* final record and done, flushed record by record or token by token.
InitForm ==
    /\ page \in Pages
    /\ stream = SegFinal \o SegDone
    /\ flush \in {"record", "token"}
    /\ clicks = 2
    /\ InitUI

SpecForm == InitForm /\ [][Next]_vars

\* Up to MaxRuns runs on one page load, over a few short streams that the
\* server flushes record by record.
RunStreams ==
    {SegEvent \o SegDone, SegDone \o SegEvent, SegError \o SegEvent}

InitRuns ==
    /\ page \in Pages
    /\ stream \in RunStreams
    /\ flush = "record"
    /\ clicks = MaxRuns
    /\ InitUI

SpecRuns == InitRuns /\ [][Next]_vars

(* ----------------------------- properties ------------------------------ *)

RunIds == 1..Len(runs)

\* The complete records of the whole stream, in order.
AllLines == Front(Split(stream))

\* Independent of HasDataPrefix: the record begins with "data:" and a space.
BeginsWithData(line) ==
    /\ Len(line) >= 2
    /\ line[1] = "data:"
    /\ line[2] = " "

\* The parsed payload of record number k of the stream.
PayloadOf(k) == JSONParse(Slice(AllLines[k], 2))

\* The messages of the exceptions that do not come from a record.
TransportFailures ==
    {"Failed to fetch", "network error", "No reader", "No response body",
     "Analysis failed: status", "The operation was aborted"}

IsAppend(e) == e.appended
Appends(h) == SelectSeq(h, IsAppend)

FreshLoop(h) ==
    [outputs |-> <<>>, activeAgent |-> "", slot |-> "", marketData |-> "",
     status |-> "analyzing", thrown |-> NoThrow, brk |-> FALSE, hist |-> h]

\* The for-of loop over the whole stream delivered as a single chunk.
OneChunk == ForLines(page, FreshLoop(<<>>), AllLines, 1, 0)

\* C1: chunk-boundary independence.  When a run has been handed the whole
\* stream, in whatever chunks, the records it appended to the output log are
\* those appended when the stream arrives as one single chunk.
C1_ChunkIndependence ==
    \A r \in RunIds :
        runs[r].pos = Len(stream) =>
            Appends(runs[r].hist) = Appends(OneChunk.hist)

\* C2: once a run has processed a record with done = true, no later record
\* of the stream appends to the output log, sets the active agent or writes
\* a result slot.
C2_NothingAfterDone ==
    \A r \in RunIds :
        \A i, j \in 1..Len(runs[r].hist) :
            (i < j /\ runs[r].hist[i].kind = "done") =>
                /\ ~runs[r].hist[j].appended
                /\ ~runs[r].hist[j].slotted

\* C3: when a record with a non-empty error field is processed, the run
\* ends in a failed state the user can see, carrying exactly that message,
\* and it is the last record the run handles.
C3_ErrorRecordShown ==
    \A r \in RunIds :
        \A i \in 1..Len(runs[r].hist) :
            runs[r].hist[i].kind = "error" =>
                /\ i = Len(runs[r].hist)
                /\ runs[r].pc = "end"
                /\ status = "error"
                /\ error = PayloadOf(runs[r].hist[i].rec).ev.error

\* A data record whose payload is not valid JSON.
Malformed(line) ==
    /\ BeginsWithData(line)
    /\ JSONParse(Slice(line, 2)).kind = "SyntaxError"

WellFormed(line) == ~Malformed(line)

\* C4: a data record whose payload is not valid JSON dispatches nothing and
\* never ends the run: every turn of the while loop leaves the page, and the
\* run, as the same turn would without the malformed records of the chunk.
C4_MalformedSkipped ==
    [][\A r \in RunIds :
        (runs'[r].pos > runs[r].pos) =>
            \A st \in {ForLines(page,
                                [FreshLoop(<<>>) EXCEPT
                                    !.outputs = outputs,
                                    !.activeAgent = activeAgent,
                                    !.slot = slot,
                                    !.marketData = marketData,
                                    !.status = status],
                                SelectSeq(Front(Split(runs[r].buffer \o
                                    SubSeq(stream, runs[r].pos + 1, runs'[r].pos))),
                                    WellFormed),
                                1, 0)} :
                /\ outputs' = st.outputs
                /\ slot' = st.slot
                /\ marketData' = st.marketData
                /\ (st.thrown = NoThrow) <=> (runs'[r].pc = "read")
                /\ st.thrown = NoThrow =>
                      /\ activeAgent' = st.activeAgent
                      /\ status' = st.status
                      /\ isRunning' = isRunning
                      /\ error' = error
                /\ st.thrown # NoThrow =>
                      /\ runs'[r].message = st.thrown.message
                      /\ runs'[r].exit = "caught"
      ]_vars

\* A malformed record was skipped and a later record of the run was appended.
C4_Witness ==
    \E r \in RunIds :
        \E i, j \in 1..Len(runs[r].hist) :
            /\ i < j
            /\ Malformed(AllLines[runs[r].hist[i].rec])
            /\ runs[r].hist[j].appended
            /\ runs[r].exit = "normal"

\* C5: a complete record that does not begin with "data: " is never parsed,
\* appends nothing, writes no result slot and does not fail the run.
C5_NoPrefixIgnored ==
    \A r \in RunIds :
        /\ \A i \in 1..Len(runs[r].hist) :
              ~BeginsWithData(AllLines[runs[r].hist[i].rec]) =>
                  /\ runs[r].hist[i].kind = "noprefix"
                  /\ ~runs[r].hist[i].appended
                  /\ ~runs[r].hist[i].slotted
                  /\ (i = Len(runs[r].hist) /\ runs[r].exit = "caught") =>
                        runs[r].message \in TransportFailures
        /\ (\A k \in 1..runs[r].recs : ~BeginsWithData(AllLines[k])) =>
              /\ outputs = <<>>
              /\ slot = ""
              /\ runs[r].exit = "caught" =>
                    runs[r].message \in TransportFailures

\* A run went over a record without the prefix and ended normally.
C5_Witness ==
    \E r \in RunIds :
        /\ runs[r].exit = "normal"
        /\ \E i \in 1..Len(runs[r].hist) :
              /\ ~BeginsWithData(AllLines[runs[r].hist[i].rec])
              /\ Len(AllLines[runs[r].hist[i].rec]) > 1

\* C6: a run on whose handle the user invoked stopAnalysis never reports a
\* failure, ends as cancelled, and when it ends the active agent is null and
\* the running flag is false.
C6_StopIsCancel ==
    /\ [](\A r \in RunIds :
            runs[r].aborted =>
                /\ runs[r].exit \in {"none", "aborted"}
                /\ runs[r].message = "")
    /\ [][\A r \in RunIds :
            (runs[r].aborted /\ runs[r].pc # "end" /\ runs'[r].pc = "end") =>
                /\ runs'[r].exit = "aborted"
                /\ activeAgent' = ""
                /\ isRunning' = FALSE
         ]_vars
    /\ \A r \in 1..MaxRuns :
            (r <= Len(runs) /\ runs[r].aborted) ~>
                (r <= Len(runs) /\ runs[r].pc = "end" /\ runs[r].exit = "aborted")

\* A run was stopped after it had appended a record, and ended as cancelled.
C6_Witness ==
    \E r \in RunIds :
        /\ runs[r].aborted
        /\ runs[r].pc = "end"
        /\ runs[r].exit = "aborted"
        /\ Appends(runs[r].hist) # <<>>

\* C7: once a run has shown a terminal outcome (complete or error), nothing
\* that happens later in the same run changes it to a different outcome.
C7_OutcomeStable ==
    [][(Len(runs') = Len(runs) /\ status \in {"complete", "error"}) =>
           status' = status]_vars

\* A run that has not been aborted and is suspended in fetch or read.
Consuming(r) == runs[r].pc \in {"fetch", "read"} /\ ~runs[r].aborted

C9_ReaderReleased ==
    \A r \in RunIds : runs[r].pc = "end" => runs[r].reader # "held"

\* C10: a parsed record that is neither done nor error is appended, and its
\* agent made the active agent, if and only if it has both a non-empty agent
\* and a non-empty content.
C10_AppendIffAgentAndContent ==
    \A r \in RunIds :
        \A i \in 1..Len(runs[r].hist) :
            runs[r].hist[i].kind = "event" =>
                LET ev == PayloadOf(runs[r].hist[i].rec).ev
                IN  runs[r].hist[i].appended <=>
                        (ev.agent # "" /\ ev.content # "")

IsPrefix(a, b) == Len(a) <= Len(b) /\ SubSeq(b, 1, Len(a)) = a

\* C11: the output log is empty right after a run starts, and while a run
\* that has not been stopped is consuming its stream every step leaves the
\* log as it was or longer at the end: the log before is a prefix of the log
\* after.
C11_AppendOnly ==
    [][/\ Len(runs') > Len(runs) => outputs' = <<>>
       /\ \A r \in RunIds : Consuming(r) => IsPrefix(outputs, outputs')
      ]_vars

\* What follows the last delimiter of s, delimiters found left to right.
RECURSIVE AfterDelims(_)
AfterDelims(s) ==
    IF FindDelim(s, 1) = 0 THEN s
    ELSE AfterDelims(SubSeq(s, FindDelim(s, 1) + 2, Len(s)))

\* C12: when the reader reports EOF the run ends as completed, without a
\* failure, and what the buffer holds after the last delimiter of the stream
\* is dropped as it is: the step handles no record, appends nothing, writes
\* no slot, and every record the run ever handled is one that was followed
\* by a delimiter.
C12_EOFCompletesTailDropped ==
    [][\A r \in RunIds :
        (runs[r].pc = "read" /\ runs'[r].exit = "normal") =>
            /\ runs'[r].pc = "end"
            /\ runs'[r].message = ""
            /\ activeAgent' = ""
            /\ page \in RunStopPages => ~isRunning'
            /\ page = "visual" => status' = "complete" /\ error' = ""
            /\ runs'[r].buffer = AfterDelims(stream)
            /\ runs'[r].hist = runs[r].hist
            /\ Len(runs'[r].hist) <= Len(AllLines)
            /\ \A i \in 1..Len(runs'[r].hist) : runs'[r].hist[i].rec <= Len(AllLines)
            /\ outputs' = outputs
            /\ slot' = slot
            /\ marketData' = marketData
      ]_vars

\* A run that saw no done record ended at EOF as completed while its buffer
\* held a complete data record with an object payload and no delimiter.
C12_Witness ==
    \E r \in RunIds :
        /\ runs[r].exit = "normal"
        /\ \A i \in 1..Len(runs[r].hist) : runs[r].hist[i].kind # "done"
        /\ Appends(runs[r].hist) # <<>>
        /\ BeginsWithData(runs[r].buffer)
        /\ JSONParse(Slice(runs[r].buffer, 2)).kind = "object"

PipelinePages == {"launch", "market", "visual"}

IsSlotted(e) == e.slotted
Slotted(h) == SelectSeq(h, IsSlotted)

\* C13 as stated: in a pipeline page every record that is neither done nor
\* error and carries a result object writes the result slot, whatever its
\* agent, content and is_final are, and it is appended only if it has an
\* agent.
C13_EveryResultSlotted ==
    page \in PipelinePages =>
        \A r \in RunIds :
            \A i \in 1..Len(runs[r].hist) :
                runs[r].hist[i].kind = "event" =>
                    LET ev == PayloadOf(runs[r].hist[i].rec).ev
                    IN  /\ ev.result # "" => runs[r].hist[i].slotted
                        /\ runs[r].hist[i].appended => ev.agent # ""

\* C13 amended: a record that is neither done nor error writes the result
\* slot exactly when, in launch-detector, it carries an assessment with a
\* threat level, in market-trends, it carries a forecast, in visual-pricing,
\* it carries a recommendation and is the final record of the strategist;
\* the slot then holds the result of the last such record, and a record
\* without an agent is never appended.
C13_ResultSlotByPage ==
    page \in PipelinePages =>
        \A r \in RunIds :
            /\ \A i \in 1..Len(runs[r].hist) :
                  runs[r].hist[i].kind = "event" =>
                      LET ev == PayloadOf(runs[r].hist[i].rec).ev
                      IN  /\ page = "launch" =>
                                (runs[r].hist[i].slotted <=>
                                    ev.result \in {"high", "low"})
                          /\ page = "market" =>
                                (runs[r].hist[i].slotted <=> ev.result # "")
                          /\ page = "visual" =>
                                (runs[r].hist[i].slotted <=>
                                    /\ ev.agent = "strategist"
                                    /\ ev.is_final
                                    /\ ev.result # "")
                          /\ runs[r].hist[i].appended => ev.agent # ""
            /\ \A sl \in {Slotted(runs[r].hist)} :
                  slot = IF sl = <<>> THEN ""
                         ELSE PayloadOf(sl[Len(sl)].rec).ev.result

\* A run wrote the slot from one record and went over another record that
\* carries a result object and did not write it.
C13_Witness ==
    \E r \in RunIds :
        \E i, j \in 1..Len(runs[r].hist) :
            /\ runs[r].hist[i].slotted
            /\ runs[r].hist[j].kind = "event"
            /\ ~runs[r].hist[j].slotted
            /\ PayloadOf(runs[r].hist[j].rec).ev.result # ""

C15_CancelEnabled ==
    \A r \in RunIds :
        Consuming(r) =>
            /\ page \in RunStopPages
            /\ isRunning
            /\ abortRef = r

\* C16: for a stream of k records with agent and content, one done record
\* and then EOF, however it is cut into chunks, a run that reached EOF
\* leaves the log with exactly the k entries in the order of the stream
\* (agent, content and thoughtType of each record), the page not running,
\* the active agent null and no error.
C16_ScenarioLog ==
    \A r \in RunIds :
        runs[r].exit = "normal" =>
            /\ outputs =
                  [i \in 1..(Len(AllLines) - 1) |->
                      [agent |-> PayloadOf(i).ev.agent,
                       content |-> PayloadOf(i).ev.content,
                       thoughtType |-> PayloadOf(i).ev.thought_type]]
            /\ activeAgent = ""
            /\ ~isRunning
            /\ page = "visual" => status = "complete"
            /\ error = ""
            /\ runs[r].message = ""

\* A run over two records and done reached EOF with a log of two entries.
C16_Witness ==
    \E r \in RunIds :
        /\ runs[r].exit = "normal"
        /\ Len(AllLines) >= 3
        /\ Len(outputs) = Len(AllLines) - 1
        /\ outputs[1] # outputs[2]

\* C17: a run that has processed a done record has ended, normally, in that
\* very step: it is not suspended in another read, and the page is not
\* running.
C17_DoneEndsRun ==
    \A r \in RunIds :
        (\E i \in 1..Len(runs[r].hist) : runs[r].hist[i].kind = "done") =>
            /\ runs[r].pc = "end"
            /\ runs[r].exit = "normal"
            /\ ~isRunning

\* C18: a run fails only on a record with an error field or on a transport
\* failure, and a data record whose payload is not an object (malformed, or
\* valid JSON such as null or a number) appends nothing, writes no slot and
\* is followed by the next record.
C18_OnlyErrorsFail ==
    \A r \in RunIds :
        /\ runs[r].exit = "caught" =>
              \/ runs[r].message \in TransportFailures
              \/ /\ runs[r].hist # <<>>
                 /\ runs[r].hist[Len(runs[r].hist)].kind = "error"
        /\ \A i \in 1..Len(runs[r].hist) :
              (/\ BeginsWithData(AllLines[runs[r].hist[i].rec])
               /\ PayloadOf(runs[r].hist[i].rec).kind # "object") =>
                  /\ ~runs[r].hist[i].appended
                  /\ ~runs[r].hist[i].slotted
                  /\ runs[r].hist[i].kind \in {"syntax", "event"}

\* C19: within one run the result slot is written at most once.
C19_SlotWrittenOnce ==
    \A r \in RunIds : Len(Slotted(runs[r].hist)) <= 1

\* C20: stopAnalysis does not interrupt the records of a chunk: when it
\* aborts a run, everything delivered so far has been taken off the buffer
\* record by record.  From then on the run handles no record, appends
\* nothing and writes no slot, and its only step is the rejection of the
\* pending fetch or read, which ends it as cancelled.
C20_CooperativeCancel ==
    [][\A r \in RunIds :
        /\ (~runs[r].aborted /\ runs'[r].aborted) =>
              /\ runs'[r].hist = runs[r].hist
              /\ runs'[r].pos = runs[r].pos
              /\ runs'[r].pc = runs[r].pc
              /\ runs[r].recs = Len(Split(SubSeq(stream, 1, runs[r].pos))) - 1
              /\ runs[r].buffer = AfterDelims(SubSeq(stream, 1, runs[r].pos))
              /\ outputs' = outputs
              /\ slot' = slot
        /\ runs[r].aborted =>
              /\ runs'[r].hist = runs[r].hist
              /\ runs'[r].pos = runs[r].pos
              /\ runs'[r].buffer = runs[r].buffer
              /\ runs'[r] # runs[r] =>
                    /\ runs[r].pc \in {"fetch", "read"}
                    /\ runs'[r].pc = "end"
                    /\ runs'[r].exit = "aborted"
                    /\ outputs' = outputs
                    /\ slot' = slot
      ]_vars

\* A run was stopped between two chunks, after it had handled the records
\* of the first and with the beginning of the next record in its buffer, and
\* ended at the pending read with the rest unread.
C20_Witness ==
    \E r \in RunIds :
        /\ runs[r].aborted
        /\ runs[r].exit = "aborted"
        /\ runs[r].hist # <<>>
        /\ runs[r].buffer # <<>>
        /\ runs[r].pos < Len(stream)
        /\ runs[r].reader = "closed"

\* The records of s that are followed by a delimiter, found left to right.
RECURSIVE CompleteRecords(_)
CompleteRecords(s) ==
    IF FindDelim(s, 1) = 0 THEN <<>>
    ELSE <<SubSeq(s, 1, FindDelim(s, 1) - 1)>> \o
         CompleteRecords(SubSeq(s, FindDelim(s, 1) + 2, Len(s)))

\* The records of q, each followed by a delimiter.
RECURSIVE Joined(_)
Joined(q) == IF q = <<>> THEN <<>> ELSE Head(q) \o Delim \o Joined(Tail(q))

IsTerminal(e) == e.kind \in {"done", "error", "typeerror"}

\* C21: after every chunk the buffer holds no delimiter and is the text
\* received so far after its last delimiter; the records taken off the
\* buffer, each with its delimiter, followed by the buffer are the text
\* received so far; the for-of loop is handed only records that are complete
\* in the received text, in stream order, and, as long as it has met no
\* terminal record, every one of them.
C21_LeftoverBuffer ==
    \A r \in RunIds :
        \A got \in {SubSeq(stream, 1, runs[r].pos)} :
        \A recd \in {CompleteRecords(got)} :
            /\ FindDelim(runs[r].buffer, 1) = 0
            /\ runs[r].buffer = AfterDelims(got)
            /\ runs[r].recs = Len(recd)
            /\ Joined(recd) \o runs[r].buffer = got
            /\ \A i \in 1..Len(runs[r].hist) :
                  /\ runs[r].hist[i].rec \in 1..Len(recd)
                  /\ i > 1 => runs[r].hist[i - 1].rec < runs[r].hist[i].rec
            /\ SelectSeq(runs[r].hist, IsTerminal) = <<>> =>
                  /\ Len(runs[r].hist) = Len(recd)
                  /\ \A i \in 1..Len(runs[r].hist) : runs[r].hist[i].rec = i

\* A run that has handled a record is waiting for the next chunk with the
\* beginning of the next record, up to the first newline of its delimiter,
\* in its buffer.
C21_Witness ==
    \E r \in RunIds :
        /\ runs[r].pc = "read"
        /\ runs[r].hist # <<>>
        /\ Len(runs[r].buffer) >= 2
        /\ runs[r].buffer[Len(runs[r].buffer)] = NL

\* C22: when every run started so far has ended, abortRef.current holds no
\* controller.
C22_HandleCleared ==
    (\A r \in RunIds : runs[r].pc = "end") => abortRef = 0

\* C23: once a later run has been started, a run appends no record to the
\* output log and writes no result slot any more.
C23_RunOwnsLog ==
    [][\A r \in RunIds :
        r < Len(runs) =>
            /\ Appends(runs'[r].hist) = Appends(runs[r].hist)
            /\ Slotted(runs'[r].hist) = Slotted(runs[r].hist)
      ]_vars

\* C24: a run ends silently as cancelled only if the user invoked
\* stopAnalysis on its handle; a failure of fetch or read that the user did
\* not cause is reported, whatever its name.
C24_SilentOnlyIfStopped ==
    \A r \in RunIds :
        /\ runs[r].exit = "aborted" => runs[r].aborted
        /\ (runs[r].pc = "end" /\ runs[r].aborted) => runs[r].exit = "aborted"

C26_AnalyzingUntilLoopEnds ==
    page = "visual" =>
        \A r \in RunIds :
            runs[r].pc \in {"fetch", "read"} => status = "analyzing"

\* C28: handleAnalyze invoked while a required field is missing starts no
\* run: it sets the error message and changes neither status, messages,
\* active agent nor recommendation.
C28_MissingFieldsNoRun ==
    [][(page = "visual" /\ ~filled /\ clicks' # clicks) =>
          /\ error' = "Please fill in all required fields"
          /\ runs' = runs
          /\ status' = status
          /\ outputs' = outputs
          /\ activeAgent' = activeAgent
          /\ slot' = slot
      ]_vars

\* After a run has completed with a message and a recommendation, a field
\* was emptied and handleAnalyze was invoked: the error is set and the
\* results of the run are still shown.
C28_Witness ==
    /\ page = "visual"
    /\ error = "Please fill in all required fields"
    /\ status = "complete"
    /\ outputs # <<>>
    /\ slot # ""
    /\ \A r \in RunIds : runs[r].pc = "end"
    /\ runs # <<>>

\* C29: in visual-pricing, when fetch resolves with a response that is not
\* OK the run ends with status "error", an error message and no active
\* agent; no reader is taken from the body, nothing is read, no message is
\* appended and no recommendation set.
C29_NotOkFails ==
    [][\A r \in RunIds :
        (page = "visual" /\ \E body \in BOOLEAN : FetchResolve(r, FALSE, body)) =>
            /\ runs'[r].pc = "end"
            /\ runs'[r].exit = "caught"
            /\ status' = "error"
            /\ error' = "Analysis failed: status"
            /\ activeAgent' = ""
            /\ runs'[r].reader = "none"
            /\ runs'[r].pos = 0
            /\ runs'[r].hist = <<>>
            /\ outputs' = <<>>
            /\ slot' = ""
      ]_vars

\* A run of visual-pricing ended on a response that was not OK.
C29_Witness ==
    \E r \in RunIds :
        /\ page = "visual"
        /\ runs[r].pc = "end"
        /\ runs[r].message = "Analysis failed: status"
        /\ runs[r].reader = "none"
        /\ status = "error"
        /\ error = "Analysis failed: status"

\* C27: in the pages with a Run/Stop button every step that ends a run, on
\* whatever path, sets the running flag to false and the active agent to
\* null; and a single run whose stream ends or fails leads to a state where
\* the run has ended, the page is not running and no agent is active.
C27_CleanupOnEveryExit ==
    /\ [][\A r \in RunIds :
            (page \in RunStopPages /\ runs[r].pc # "end" /\ runs'[r].pc = "end") =>
                /\ ~isRunning'
                /\ activeAgent' = ""
         ]_vars
    /\ (page \in RunStopPages /\ Len(runs) >= 1) ~>
            (/\ Len(runs) >= 1
             /\ runs[1].pc = "end"
             /\ ~isRunning
             /\ activeAgent = "")

\* A run that had made an agent active ended on an error record, and the
\* page is not running and shows no active agent.
C27_Witness ==
    \E r \in RunIds :
        /\ page \in RunStopPages
        /\ runs[r].pc = "end"
        /\ Appends(runs[r].hist) # <<>>
        /\ runs[r].hist[Len(runs[r].hist)].kind = "error"
        /\ ~isRunning
        /\ activeAgent = ""

====
